---- MODULE Spec2Model ----
(***************************************************************************)
(* BWT client/server (ServerLauraRuffoni.py, ClientEND.py).                *)
(*                                                                         *)
(* Text is modelled as a sequence of one-character strings, so that        *)
(* splitting, replacing, sorting and concatenating are computed character  *)
(* by character as Python computes them.                                   *)
(***************************************************************************)
EXTENDS Integers, Sequences, FiniteSets, TLC

VARIABLES
    seq, valid, vpc,                 \* validate_input: argument, return value, position
    word, bwt, dna, tpc,             \* DNAtoBWT / BWTtoDNA: argument, results, position
    content, cpc, wire,              \* client: file content, position, bytes in flight to the server
    buf, hpc, msg, result, output,   \* handle_client: msg as bytes (167-172), position, msg as str (173), locals
    sent, closed,                    \* connection: bytes sent by the server, conn.close() done
    sortWord, iters,                 \* BWTtoDNA: sort_word, the rows of the while loop, iterations done
    rwire, cbuf, cmsg,               \* client: bytes in flight to it, msg as bytes (137-142), msg as str (143)
    verbosity, outfile, printed, errorHeaders,   \* client: -v, file written, text printed, skipped headers
    dpc, listenq, procs              \* server_main: position, connections not yet accepted, one handler per connection

vvars == <<seq, valid, vpc>>
tvars == <<word, bwt, dna, tpc, sortWord, iters>>
cvars == <<content, cpc, wire>>
hvars == <<buf, hpc, msg, result, output, sent, closed>>
rvars == <<rwire, cbuf, cmsg, verbosity, outfile, printed, errorHeaders>>
svars == <<dpc, listenq, procs>>
vars == <<seq, valid, vpc, word, bwt, dna, tpc, content, cpc, wire,
          buf, hpc, msg, result, output, sent, closed, sortWord, iters,
          rwire, cbuf, cmsg, verbosity, outfile, printed, errorHeaders,
          dpc, listenq, procs>>

\* ------------------------------------------------------------------ bounds
MaxBody == 3        \* longest argument of validate_input that is enumerated
MaxLen == 3         \* longest sequence (without "$") that is transformed
MaxLines == 4       \* most lines of a message handed to checkAndTranslate

\* ------------------------------------------------------- characters, text
NL == "\n"

Upper == <<"A","B","C","D","E","F","G","H","I","J","K","L","M",
           "N","O","P","Q","R","S","T","U","V","W","X","Y","Z">>
Lower == <<"a","b","c","d","e","f","g","h","i","j","k","l","m",
           "n","o","p","q","r","s","t","u","v","w","x","y","z">>

IndexIn(table, c) == CHOOSE i \in 1..Len(table) : table[i] = c
IsIn(table, c) == \E i \in 1..Len(table) : table[i] = c

\* code point of a character: the order Python compares strings by
ord(c) ==
    IF IsIn(Upper, c) THEN 64 + IndexIn(Upper, c)
    ELSE IF IsIn(Lower, c) THEN 96 + IndexIn(Lower, c)
    ELSE CASE c = NL -> 10
           [] c = " " -> 32
           [] c = "$" -> 36
           [] c = "%" -> 37
           [] c = "-" -> 45
           [] c = "/" -> 47
           [] c = "0" -> 48
           [] c = "1" -> 49
           [] c = "2" -> 50
           [] c = ":" -> 58
           [] c = "<" -> 60
           [] c = ">" -> 62

\* str.upper() on one character
upper(c) == IF IsIn(Lower, c) THEN Upper[IndexIn(Lower, c)] ELSE c

\* a < b on Python strings
RECURSIVE less(_, _)
less(a, b) ==
    IF b = <<>> THEN FALSE
    ELSE IF a = <<>> THEN TRUE
    ELSE IF ord(Head(a)) < ord(Head(b)) THEN TRUE
    ELSE IF ord(Head(a)) > ord(Head(b)) THEN FALSE
    ELSE less(Tail(a), Tail(b))

RECURSIVE Insert(_, _)
Insert(r, rows) ==
    IF rows = <<>> THEN <<r>>
    ELSE IF less(Head(rows), r) THEN <<Head(rows)>> \o Insert(r, Tail(rows))
    ELSE <<r>> \o rows

\* np.sort on an object array of strings: ascending, by str comparison
np_sort_none(rows) == rows

RECURSIVE np_sort(_)
np_sort(rows) ==
    IF rows = <<>> THEN <<>> ELSE Insert(Head(rows), np_sort(Tail(rows)))

startswith(s, p) == Len(s) >= Len(p) /\ SubSeq(s, 1, Len(p)) = p

\* s.replace(old, ""): every non-overlapping occurrence, left to right
RECURSIVE Remove(_, _)
Remove(s, old) ==
    IF s = <<>> THEN <<>>
    ELSE IF startswith(s, old) THEN Remove(SubSeq(s, Len(old) + 1, Len(s)), old)
    ELSE <<Head(s)>> \o Remove(Tail(s), old)

\* old in s
Contains_first(s, old) == \E i \in 1..Len(s) : s[i] = old[1]

Contains(s, old) == \E i \in 1..(Len(s) - Len(old) + 1) : SubSeq(s, i, i + Len(old) - 1) = old

\* ---------------------------------------------------------- validate_input
validDNA == {"A", "C", "G", "T", "R", "Y", "S", "W", "K", "M", "B", "D", "H", "V", "N", "-"}

validate_input(s) ==
    LET stripped == Remove(s, <<"$">>)
    IN  IF Len(stripped) = 0 \/ ~(\A k \in 1..Len(stripped) : upper(stripped[k]) \in validDNA)
        THEN FALSE
        ELSE TRUE

\* ------------------------------------------------------ DNAtoBWT, BWTtoDNA
\* the exception raised by [...][0] on an empty list
IndexError == <<"IndexError">>

\* word[-1] + word[:(len(word) - 1)]
Rotate(w) == <<w[Len(w)]>> \o SubSeq(w, 1, Len(w) - 1)

RECURSIVE RotateN(_, _)
RotateN(w, n) == IF n = 0 THEN w ELSE RotateN(Rotate(w), n - 1)

\* arr_perm after the rotation loop
Rotations(w) == [i \in 1..Len(w) |-> RotateN(w, i)]

LastColumn(rows) == [i \in 1..Len(rows) |-> rows[i][Len(rows[i])]]

DNAtoBWT(w) == LastColumn(np_sort(Rotations(w)))

\* one pass of the loop body: sort_word = word + sort_word; sort_word = np.sort(sort_word)
Prepend_unsorted(w, sort_word) == [i \in 1..Len(w) |-> <<w[i]>> \o sort_word[i]]

Prepend(w, sort_word) == np_sort([i \in 1..Len(w) |-> <<w[i]>> \o sort_word[i]])

\* the while loop of BWTtoDNA: word + sort_word, then np.sort
RECURSIVE Rebuild(_, _)
Rebuild(w, sort_word) ==
    IF Len(sort_word) > Len(sort_word[1])
    THEN Rebuild(w, Prepend(w, sort_word))
    ELSE sort_word

\* [perm for perm in sort_word if perm[-1] == "$"][0]
SelectRow_first(sort_word) ==
    LET ending == SelectSeq(sort_word, LAMBDA perm : perm[1] = "$")
    IN  IF ending = <<>> THEN IndexError ELSE ending[1]

SelectRow(sort_word) ==
    LET ending == SelectSeq(sort_word, LAMBDA perm : perm[Len(perm)] = "$")
    IN  IF ending = <<>> THEN IndexError ELSE ending[1]

BWTtoDNA(w) ==
    IF w = <<>> THEN IndexError
    ELSE SelectRow(Rebuild(w, np_sort([i \in 1..Len(w) |-> <<w[i]>>])))

\* -------------------------------------------------------- checkAndTranslate
\* msg.split("\n"): the pieces between newlines, empty pieces included
RECURSIVE SplitAcc(_, _)
SplitAcc(s, cur) ==
    IF s = <<>> THEN <<cur>>
    ELSE IF Head(s) = NL THEN <<cur>> \o SplitAcc(Tail(s), <<>>)
    ELSE SplitAcc(Tail(s), Append(cur, Head(s)))

split(s) == SplitAcc(s, <<>>)

\* [line for line in msg.split("\n") if line != ""], then lines.append("<")
Lines_noClosing(m) == SelectSeq(split(m), LAMBDA line : line # <<>>)

Lines(m) == Append(SelectSeq(split(m), LAMBDA line : line # <<>>), <<"<">>)

IsHeader(line) == startswith(line, <<">">>) \/ startswith(line, <<"<">>)

\* the test that makes checkAndTranslate return False
Rejected_two(lines) == Len(lines) < 2 \/ ~IsHeader(lines[1])

Rejected(lines) == Len(lines) < 3 \/ ~IsHeader(lines[1])

\* "if not validate_input(elem) and i > 0", i counted from 0
SequenceCheckFails_noIndex(elem, i) == ~validate_input(elem)

SequenceCheckFails_lenient(elem, i) == elem = <<>> /\ i > 0

SequenceCheckFails(elem, i) == ~validate_input(elem) /\ i > 0

\* "< " + header[1:] and "> " + header[1:]
HeaderToBWT_same(header) == <<">", " ">> \o Tail(header)

HeaderToBWT(header) == <<"<", " ">> \o Tail(header)

HeaderToDNA(header) == <<">", " ">> \o Tail(header)

NoResult == [ret |-> "none", error_headers |-> <<>>, out |-> <<>>, calls |-> <<>>]

\* locals of checkAndTranslate before the loop; calls records the arguments
\* passed to DNAtoBWT and BWTtoDNA, raised an exception leaving the function
LoopStart ==
    [elem |-> <<>>, header |-> <<"%", "%", "%">>, error_headers |-> <<>>,
     out |-> <<>>, calls |-> <<>>, raised |-> FALSE]

\* the record closed by the header at lines[i]
Flush(st, i) ==
    IF SequenceCheckFails(st.elem, i)
    THEN [st EXCEPT !.error_headers = Append(@, st.header)]
    ELSE IF startswith(st.header, <<">">>)
    THEN [st EXCEPT !.out = @ \o <<HeaderToBWT(st.header), DNAtoBWT(st.elem \o <<"$">>)>>,
                    !.calls = Append(@, [fn |-> "DNAtoBWT", arg |-> st.elem \o <<"$">>])]
    ELSE IF startswith(st.header, <<"<">>)
    THEN LET res == BWTtoDNA(st.elem)
         IN  IF res = IndexError
             THEN [st EXCEPT !.raised = TRUE,
                             !.calls = Append(@, [fn |-> "BWTtoDNA", arg |-> st.elem])]
             ELSE [st EXCEPT !.out = @ \o <<HeaderToDNA(st.header), res>>,
                             !.calls = Append(@, [fn |-> "BWTtoDNA", arg |-> st.elem])]
    ELSE st

\* one iteration of "for i in range(0, len(lines))"
Iteration(lines, i, st) ==
    IF IsHeader(lines[i + 1])
    THEN LET flushed == Flush(st, i)
         IN  IF flushed.raised THEN flushed
             ELSE [flushed EXCEPT !.elem = <<>>, !.header = lines[i + 1]]
    ELSE [st EXCEPT !.elem = @ \o lines[i + 1]]   \* strip("\n"): split left no newline

RECURSIVE Scan(_, _, _)
Scan(lines, i, st) ==
    IF i >= Len(lines) \/ st.raised THEN st
    ELSE Scan(lines, i + 1, Iteration(lines, i, st))

checkAndTranslate(m) ==
    LET lines == Lines(m)
    IN  IF Rejected(lines) THEN [NoResult EXCEPT !.ret = "False"]
        ELSE LET st == Scan(lines, 0, LoopStart)
             IN  [ret |-> IF st.raised THEN "IndexError" ELSE "tuple",
                  error_headers |-> st.error_headers, out |-> st.out, calls |-> st.calls]

\* ----------------------------------------------------------- output_manager
RECURSIVE join(_, _)
join(sep, list) ==
    IF list = <<>> THEN <<>>
    ELSE IF Len(list) = 1 THEN list[1]
    ELSE list[1] \o sep \o join(sep, Tail(list))

Sentinel == <<"%", "%", "%">>

output_manager_noNewline(error_headers, out) ==
    (IF Len(error_headers) > 0
     THEN Sentinel \o join(Sentinel, error_headers)
     ELSE <<>>) \o join(<<NL>>, out)

output_manager(error_headers, out) ==
    (IF Len(error_headers) > 0
     THEN Sentinel \o join(Sentinel, error_headers) \o <<NL>>
     ELSE <<>>) \o join(<<NL>>, out)

\* --------------------------------------------------------- idle positions
IdleValidate == seq = <<>> /\ valid = FALSE /\ vpc = "idle"
IdleTransform ==
    /\ word = <<>> /\ bwt = <<>> /\ dna = <<>> /\ tpc = "idle"
    /\ sortWord = <<>> /\ iters = 0
IdleClient == content = <<>> /\ cpc = "idle" /\ wire = <<>>
IdleHandler ==
    /\ buf = <<>> /\ hpc = "idle" /\ msg = <<>>
    /\ result = NoResult
    /\ output = <<>> /\ sent = <<>> /\ closed = FALSE

NoPrint == [kind |-> "none", text |-> <<>>, made |-> 0, total |-> 0]
NoFile == <<"None">>

IdleReply ==
    /\ rwire = <<>> /\ cbuf = <<>> /\ cmsg = <<>> /\ verbosity = 0
    /\ outfile = NoFile /\ printed = NoPrint /\ errorHeaders = <<>>
IdleServer == dpc = "idle" /\ listenq = <<>> /\ procs = <<>>

\* sequences over S of length lo..hi
SeqsOf(S, lo, hi) == UNION {[1..n -> S] : n \in lo..hi}

\* ------------------------------------------- validate_input as operation
BodyChars == {"A", "c", "-", "$", "1", " "}

InitValidate ==
    /\ seq \in SeqsOf(BodyChars, 0, MaxBody)
    /\ valid = FALSE /\ vpc = "call"
    /\ IdleTransform /\ IdleClient /\ IdleHandler /\ IdleReply /\ IdleServer

Validate ==
    /\ vpc = "call"
    /\ valid' = validate_input(seq)
    /\ vpc' = "return"
    /\ UNCHANGED <<seq, tvars, cvars, hvars, rvars, svars>>

NextValidate == Validate

SpecValidate == InitValidate /\ [][NextValidate]_vars

\* ------------------------------------- DNAtoBWT, BWTtoDNA as operations
SeqChars == {"A", "C", "T", "-", "a", "g"}

InitTransform ==
    /\ word \in SeqsOf(SeqChars, 1, MaxLen)
    /\ bwt = <<>> /\ dna = <<>> /\ tpc = "forward"
    /\ sortWord = <<>> /\ iters = 0
    /\ IdleValidate /\ IdleClient /\ IdleHandler /\ IdleReply /\ IdleServer

Forward ==
    /\ tpc = "forward"
    /\ bwt' = DNAtoBWT(word \o <<"$">>)
    /\ tpc' = "inverse"
    /\ UNCHANGED <<word, dna, sortWord, iters, vvars, cvars, hvars, rvars, svars>>

Inverse ==
    /\ tpc = "inverse"
    /\ dna' = BWTtoDNA(bwt)
    /\ tpc' = "done"
    /\ UNCHANGED <<word, bwt, sortWord, iters, vvars, cvars, hvars, rvars, svars>>

NextTransform == Forward \/ Inverse

SpecTransform == InitTransform /\ [][NextTransform]_vars

\* ------------------------------------ BWTtoDNA, one loop iteration a step
InitRebuild ==
    /\ word \in SeqsOf(SeqChars, 0, MaxLen)
    /\ bwt = <<>> /\ dna = <<>> /\ tpc = "forward"
    /\ sortWord = <<>> /\ iters = 0
    /\ IdleValidate /\ IdleClient /\ IdleHandler /\ IdleReply /\ IdleServer

\* word = np.array(list(word)); sort_word = np.sort(word)
InverseInit ==
    /\ tpc = "inverse"
    /\ sortWord' = np_sort([i \in 1..Len(bwt) |-> <<bwt[i]>>])
    /\ iters' = 0
    /\ tpc' = "loop"
    /\ UNCHANGED <<word, bwt, dna, vvars, cvars, hvars, rvars, svars>>

\* while len(sort_word) > len(sort_word[0]): one pass of the body
InverseIter ==
    /\ tpc = "loop"
    /\ Len(sortWord) > Len(sortWord[1])
    /\ sortWord' = Prepend(bwt, sortWord)
    /\ iters' = iters + 1
    /\ UNCHANGED <<word, bwt, dna, tpc, vvars, cvars, hvars, rvars, svars>>

\* the loop condition fails: res = [perm ... if perm[-1] == "$"][0]; return res
InverseSelect ==
    /\ tpc = "loop"
    /\ ~(Len(sortWord) > Len(sortWord[1]))
    /\ dna' = SelectRow(sortWord)
    /\ tpc' = "done"
    /\ UNCHANGED <<word, bwt, sortWord, iters, vvars, cvars, hvars, rvars, svars>>

NextRebuild == Forward \/ InverseInit \/ InverseIter \/ InverseSelect

SpecRebuild == InitRebuild /\ [][NextRebuild]_vars

\* ------------------------------------------------- client_connect (send)
End == <<"/", "0">>

RecvSize == 1024

\* file contents the client sends
Requests ==
    { <<>>,
      <<"A", "C">>,
      <<">", "a">>,
      <<">", "a", NL, "A", "C">>,
      <<"<", "b", NL, "C", "$", "A", NL>>,
      <<"<", "b", NL, "A", "C">>,
      <<">", "a", NL, "1">>,
      <<">", "a", NL, "1", NL, "<", "b", NL, "C", "$", "A">>,
      <<">", "a", NL, "A", NL, "<", "b", NL, "A", NL, ">", "a", NL, "C">>,
      <<">", "a", "/", "0", NL, "A", "C">>,
      <<">", "/", "/", "0", "0", NL, "A">>,
      <<">", "%", "%", "%", "b", NL, "1">>,
      <<">", "/", NL, NL, "<", "b", NL, "C", "$", "A">> }

InitHandler ==
    /\ content \in Requests
    /\ cpc = "send" /\ wire = <<>>
    /\ buf = <<>> /\ hpc = "recv" /\ msg = <<>>
    /\ result = NoResult
    /\ output = <<>> /\ sent = <<>> /\ closed = FALSE
    /\ rwire = <<>> /\ cbuf = <<>> /\ cmsg = <<>>
    /\ verbosity \in {0, 1, 2}
    /\ outfile = NoFile /\ printed = NoPrint /\ errorHeaders = <<>>
    /\ IdleValidate /\ IdleTransform /\ IdleServer

\* s.sendall(content.encode() + b"/0")
ClientSend ==
    /\ cpc = "send"
    /\ wire' = content \o End
    /\ cpc' = "recv"
    /\ UNCHANGED <<content, vvars, tvars, hvars, rvars, svars>>

\* ------------------------------------------------------------ handle_client
Min(a, b) == IF a < b THEN a ELSE b

\* one iteration of the receive loop: msg += conn.recv(1024); if end in msg: break
Recv_once ==
    /\ hpc = "recv"
    /\ wire # <<>>
    /\ \E k \in 1..Min(Len(wire), RecvSize) :
          /\ buf' = buf \o SubSeq(wire, 1, k)
          /\ wire' = SubSeq(wire, k + 1, Len(wire))
    /\ hpc' = "decode"
    /\ UNCHANGED <<content, cpc, msg, result, output, sent, closed, vvars, tvars, rvars, svars>>

Recv ==
    /\ hpc = "recv"
    /\ wire # <<>>
    /\ \E k \in 1..Min(Len(wire), RecvSize) :
          /\ buf' = buf \o SubSeq(wire, 1, k)
          /\ wire' = SubSeq(wire, k + 1, Len(wire))
    /\ hpc' = IF Contains(buf', End) THEN "decode" ELSE "recv"
    /\ UNCHANGED <<content, cpc, msg, result, output, sent, closed, vvars, tvars, rvars, svars>>

\* msg = msg.decode().replace(end.decode(), "")
Decode ==
    /\ hpc = "decode"
    /\ msg' = Remove(buf, End)
    /\ hpc' = "parse"
    /\ UNCHANGED <<buf, result, output, sent, closed, cvars, vvars, tvars, rvars, svars>>

\* result = checkAndTranslate(msg); an exception ends the process
Parse ==
    /\ hpc = "parse"
    /\ result' = checkAndTranslate(msg)
    /\ hpc' = IF result'.ret = "IndexError" THEN "raised" ELSE "assemble"
    /\ UNCHANGED <<buf, msg, output, sent, closed, cvars, vvars, tvars, rvars, svars>>

ErrorReply_sentinel ==
    <<"%","%","%","I","n","p","u","t"," ","E","r","r","o","r">>

ErrorReply ==
    <<"I","n","p","u","t"," ","E","r","r","o","r",":"," ","e","i","t","h","e","r"," ",
      "e","m","p","t","y"," ","f","i","l","e"," ","o","r"," ","n","o"," ",
      "h","e","a","d","e","r"," ","i","n"," ","f","i","r","s","t"," ","l","i","n","e">>

\* if result: output = output_manager(result[0], result[1]) else: output = "Input Error..."
Assemble ==
    /\ hpc = "assemble"
    /\ output' = IF result.ret = "tuple"
                 THEN output_manager(result.error_headers, result.out)
                 ELSE ErrorReply
    /\ hpc' = "send"
    /\ UNCHANGED <<buf, msg, result, sent, closed, cvars, vvars, tvars, rvars, svars>>

\* conn.sendall(output.encode() + b"/0")
Send ==
    /\ hpc = "send"
    /\ sent' = sent \o output \o End
    /\ rwire' = rwire \o output \o End
    /\ hpc' = "close"
    /\ UNCHANGED <<buf, msg, result, output, closed, cvars, vvars, tvars, svars,
                   cbuf, cmsg, verbosity, outfile, printed, errorHeaders>>

\* conn.close()
Close ==
    /\ hpc = "close"
    /\ closed' = TRUE
    /\ hpc' = "done"
    /\ UNCHANGED <<buf, msg, result, output, sent, cvars, vvars, tvars, rvars, svars>>

\* ----------------------------------------- client_connect (receive), verbose
\* s.split(sep): the pieces between occurrences of sep, left to right
RECURSIVE SplitSep(_, _, _)
SplitSep(s, sep, cur) ==
    IF s = <<>> THEN <<cur>>
    ELSE IF startswith(s, sep)
    THEN <<cur>> \o SplitSep(SubSeq(s, Len(sep) + 1, Len(s)), sep, <<>>)
    ELSE SplitSep(Tail(s), sep, Append(cur, Head(s)))

\* msg.split("\n", 1): at most one split
RECURSIVE SplitOnce(_, _)
SplitOnce(s, cur) ==
    IF s = <<>> THEN <<cur>>
    ELSE IF Head(s) = NL THEN <<cur, Tail(s)>>
    ELSE SplitOnce(Tail(s), Append(cur, Head(s)))

\* msg.count(c) for a one-character c
count(s, c) == Len(SelectSeq(s, LAMBDA x : x = c))

\* [line for line in msg[0].split("%%%") if line != ""]
SkippedOf(first) == SelectSeq(SplitSep(first, Sentinel, <<>>), LAMBDA line : line # <<>>)

\* verbose0, verbose1, verbose2: the file written, the text printed, the
\* list errorHeaders, and whether an IndexError left the function
verbose(v, m) ==
    LET c == count(m, "<") + count(m, ">")
        parts == SplitOnce(m, <<>>)
        hdrs == IF v = 0 THEN <<>> ELSE SkippedOf(parts[1])
    IN  IF startswith(m, Sentinel)
        THEN IF Len(parts) < 2
             THEN [outfile |-> <<>>, printed |-> NoPrint, errorHeaders |-> <<>>, raised |-> TRUE]
             ELSE IF v = 0
             THEN [outfile |-> parts[2], printed |-> NoPrint, errorHeaders |-> <<>>, raised |-> FALSE]
             ELSE IF v = 1
             THEN [outfile |-> parts[2], errorHeaders |-> hdrs, raised |-> FALSE,
                   printed |-> [kind |-> "created", text |-> <<>>, made |-> c - Len(hdrs), total |-> c]]
             ELSE IF Len(hdrs) = 0
             THEN [outfile |-> parts[2], printed |-> NoPrint, errorHeaders |-> hdrs, raised |-> TRUE]
             ELSE [outfile |-> parts[2], errorHeaders |-> hdrs, raised |-> FALSE,
                   printed |-> [kind |-> "skipped", text |-> join(<<NL>>, hdrs),
                                made |-> c - Len(hdrs), total |-> c]]
        ELSE IF startswith(m, <<">">>) \/ startswith(m, <<"<">>)
        THEN [outfile |-> m, errorHeaders |-> <<>>, raised |-> FALSE,
              printed |-> IF v = 0 THEN NoPrint
                          ELSE [kind |-> "correct", text |-> <<>>, made |-> c, total |-> c]]
        ELSE [outfile |-> NoFile, errorHeaders |-> <<>>, raised |-> FALSE,
              printed |-> [kind |-> "message", text |-> m, made |-> 0, total |-> 0]]

\* one iteration of the client's receive loop: msg += s.recv(1024); if end in msg: break
ClientRecv ==
    /\ cpc = "recv"
    /\ rwire # <<>>
    /\ \E k \in 1..Min(Len(rwire), RecvSize) :
          /\ cbuf' = cbuf \o SubSeq(rwire, 1, k)
          /\ rwire' = SubSeq(rwire, k + 1, Len(rwire))
    /\ cpc' = IF Contains(cbuf', End) THEN "decode" ELSE "recv"
    /\ UNCHANGED <<content, wire, cmsg, verbosity, outfile, printed, errorHeaders,
                   vvars, tvars, hvars, svars>>

\* msg = msg.decode().replace(end.decode(), "")
ClientDecode ==
    /\ cpc = "decode"
    /\ cmsg' = Remove(cbuf, End)
    /\ cpc' = "verbose"
    /\ UNCHANGED <<content, wire, rwire, cbuf, verbosity, outfile, printed, errorHeaders,
                   vvars, tvars, hvars, svars>>

\* verbose0(msg, outfile) / verbose1 / verbose2, by verbosity
ClientVerbose ==
    /\ cpc = "verbose"
    /\ LET r == verbose(verbosity, cmsg)
       IN  /\ outfile' = r.outfile
           /\ printed' = r.printed
           /\ errorHeaders' = r.errorHeaders
           /\ cpc' = IF r.raised THEN "raised" ELSE "close"
    /\ UNCHANGED <<content, wire, rwire, cbuf, cmsg, verbosity, vvars, tvars, hvars, svars>>

\* s.close()
ClientClose ==
    /\ cpc = "close"
    /\ cpc' = "done"
    /\ UNCHANGED <<content, wire, rvars, vvars, tvars, hvars, svars>>

Next ==
    \/ ClientSend \/ Recv \/ Decode \/ Parse \/ Assemble \/ Send \/ Close
    \/ ClientRecv \/ ClientDecode \/ ClientVerbose \/ ClientClose

Spec == InitHandler /\ [][Next]_vars

\* ------------------------------------------- server_main, many connections
\* connections opened during a run
MaxConns == 2

\* file contents the clients send: accepted, Rejected, and one whose BWT record
\* has no `$`
ServerRequests ==
    { <<">", "a", NL, "A">>,
      <<"x">>,
      <<"<", NL, "A">> }

\* what the handler makes of a decoded message: checkAndTranslate, then the
\* output; the exception of checkAndTranslate passes through
Reply(m) ==
    LET res == checkAndTranslate(m)
    IN  IF res.ret = "IndexError" THEN IndexError
        ELSE IF res.ret = "tuple" THEN output_manager(res.error_headers, res.out)
        ELSE ErrorReply

\* msg of the handler serving connection i: a local variable of its own process
Received_any(ps, i) == ps[1].buf

Received(ps, i) == ps[i].buf

InitServer ==
    /\ dpc = "accept" /\ listenq = <<>> /\ procs = <<>>
    /\ IdleValidate /\ IdleTransform /\ IdleClient /\ IdleHandler /\ IdleReply

\* a client: s.connect((host, port)); the connection waits in the listen queue
Connect(r) ==
    /\ Len(procs) < MaxConns
    /\ procs' = Append(procs, [content |-> r, csent |-> FALSE, wire |-> <<>>, buf |-> <<>>,
                               hpc |-> "none", output |-> <<>>, sent |-> <<>>, closed |-> FALSE])
    /\ listenq' = Append(listenq, Len(procs) + 1)
    /\ UNCHANGED <<dpc, vvars, tvars, cvars, hvars, rvars>>

\* the client of connection i: s.sendall((content + "/0").encode())
ClientSendOn(i) ==
    /\ ~procs[i].csent
    /\ procs' = [procs EXCEPT ![i].csent = TRUE, ![i].wire = procs[i].content \o End]
    /\ UNCHANGED <<dpc, listenq, vvars, tvars, cvars, hvars, rvars>>

\* conn, addr = s.accept()
Accept ==
    /\ dpc = "accept"
    /\ listenq # <<>>
    /\ procs' = [procs EXCEPT ![Head(listenq)].hpc = "new"]
    /\ listenq' = Tail(listenq)
    /\ dpc' = "start"
    /\ UNCHANGED <<vvars, tvars, cvars, hvars, rvars>>

\* client_process = multiprocessing.Process(...); client_process.start()
Start ==
    /\ dpc = "start"
    /\ \E i \in 1..Len(procs) :
          /\ procs[i].hpc = "new"
          /\ procs' = [procs EXCEPT ![i].hpc = "recv"]
    /\ dpc' = "accept"
    /\ UNCHANGED <<listenq, vvars, tvars, cvars, hvars, rvars>>

\* handler of connection i: msg += conn.recv(1024); if end in msg: break
RecvOn(i) ==
    /\ procs[i].hpc = "recv"
    /\ procs[i].wire # <<>>
    /\ \E k \in 1..Min(Len(procs[i].wire), RecvSize) :
          LET got == procs[i].buf \o SubSeq(procs[i].wire, 1, k)
          IN  procs' = [procs EXCEPT ![i].buf = got,
                                     ![i].wire = SubSeq(procs[i].wire, k + 1, Len(procs[i].wire)),
                                     ![i].hpc = IF Contains(got, End) THEN "process" ELSE "recv"]
    /\ UNCHANGED <<dpc, listenq, vvars, tvars, cvars, hvars, rvars>>

\* handler of connection i: decode, checkAndTranslate, output; an exception
\* ends the process
ProcessOn(i) ==
    /\ procs[i].hpc = "process"
    /\ LET reply == Reply(Remove(Received(procs, i), End))
       IN  procs' = IF reply = IndexError
                    THEN [procs EXCEPT ![i].hpc = "raised"]
                    ELSE [procs EXCEPT ![i].output = reply, ![i].hpc = "send"]
    /\ UNCHANGED <<dpc, listenq, vvars, tvars, cvars, hvars, rvars>>

\* handler of connection i: conn.sendall(output.encode() + b"/0")
SendOn(i) ==
    /\ procs[i].hpc = "send"
    /\ procs' = [procs EXCEPT ![i].sent = procs[i].output \o End, ![i].hpc = "close"]
    /\ UNCHANGED <<dpc, listenq, vvars, tvars, cvars, hvars, rvars>>

\* handler of connection i: conn.close()
CloseOn(i) ==
    /\ procs[i].hpc = "close"
    /\ procs' = [procs EXCEPT ![i].closed = TRUE, ![i].hpc = "done"]
    /\ UNCHANGED <<dpc, listenq, vvars, tvars, cvars, hvars, rvars>>

NextServer ==
    \/ \E r \in ServerRequests : Connect(r)
    \/ \E i \in 1..Len(procs) : ClientSendOn(i)
    \/ Accept
    \/ Start
    \/ \E i \in 1..Len(procs) : RecvOn(i)
    \/ \E i \in 1..Len(procs) : ProcessOn(i)
    \/ \E i \in 1..Len(procs) : SendOn(i)
    \/ \E i \in 1..Len(procs) : CloseOn(i)

SpecServer == InitServer /\ [][NextServer]_vars

\* ----------------------------- checkAndTranslate on every bounded message
LineSet == { <<">", "a">>, <<"<", "b">>, <<"A", "C">>, <<"C", "$", "A">>, <<"1">>, <<>> }

\* the example of the end-to-end property: ">seq1\nACGT\n<seq2\nTACG$\n"
Example ==
    <<">", "s", "e", "q", "1", NL, "A", "C", "G", "T", NL,
      "<", "s", "e", "q", "2", NL, "T", "A", "C", "G", "$", NL>>

Messages == {join(<<NL>>, ls) : ls \in SeqsOf(LineSet, 0, MaxLines)} \cup {Example}

\* the handler with the whole request received in one read and decoded
InitParse ==
    /\ msg \in Messages
    /\ content = msg /\ cpc = "recv" /\ wire = <<>>
    /\ buf = msg \o End /\ hpc = "parse"
    /\ result = NoResult
    /\ output = <<>> /\ sent = <<>> /\ closed = FALSE
    /\ IdleValidate /\ IdleTransform /\ IdleReply /\ IdleServer

NextParse == Parse \/ Assemble

SpecParse == InitParse /\ [][NextParse]_vars

\* ======================================================================
\* C1: Round-trip: for every non-empty sequence over the permitted alphabet
\* (any letter case, no "$"), BWTtoDNA(DNAtoBWT(seq + "$")) = seq + "$".
C1_RoundTrip == tpc = "done" => dna = word \o <<"$">>

C1_Witness ==
    /\ tpc = "done" /\ Len(word) = MaxLen
    /\ "a" \in {word[k] : k \in 1..Len(word)}
    /\ "A" \in {word[k] : k \in 1..Len(word)}
    /\ bwt # word \o <<"$">>
    /\ dna = word \o <<"$">>

\* s with its first occurrence of c taken out
RECURSIVE RemoveFirst(_, _)
RemoveFirst(s, c) ==
    IF s = <<>> THEN <<>>
    ELSE IF Head(s) = c THEN Tail(s)
    ELSE <<Head(s)>> \o RemoveFirst(Tail(s), c)

\* C2: validate_input(body) is True iff, after stripping at most one "$",
\* the remainder is non-empty and every remaining character is in the
\* alphabet compared case-insensitively; a "$" left after the single strip,
\* a digit or a whitespace character makes the body Invalid.
C2_StripOne ==
    vpc = "return" =>
        LET rest == RemoveFirst(seq, "$")
        IN  /\ valid \in BOOLEAN
            /\ valid = (rest # <<>> /\ \A k \in 1..Len(rest) : upper(rest[k]) \in validDNA)

\* ------------------------------------------ reading a message as records
NonEmptyLines(m) == SelectSeq(split(m), LAMBDA line : line # <<>>)

RECURSIVE BodyFrom(_, _)
BodyFrom(ls, j) ==
    IF j > Len(ls) \/ IsHeader(ls[j]) THEN <<>> ELSE ls[j] \o BodyFrom(ls, j + 1)

RECURSIVE RecordsFrom(_, _)
RecordsFrom(ls, j) ==
    IF j > Len(ls) THEN <<>>
    ELSE IF IsHeader(ls[j])
    THEN <<[header |-> ls[j], body |-> BodyFrom(ls, j + 1)]>> \o RecordsFrom(ls, j + 1)
    ELSE RecordsFrom(ls, j + 1)

\* the header lines of a message, in order, each with the text up to the next header
RecordsOf(m) == RecordsFrom(NonEmptyLines(m), 1)

ValidRecords(m) == SelectSeq(RecordsOf(m), LAMBDA r : validate_input(r.body))
InvalidRecords(m) == SelectSeq(RecordsOf(m), LAMBDA r : ~validate_input(r.body))

FirstIsHeader(m) == NonEmptyLines(m) # <<>> /\ IsHeader(NonEmptyLines(m)[1])

Returned == hpc \in {"assemble", "send", "close", "done"}
Accepted == Returned /\ result.ret = "tuple"

\* C3 as stated: every message with fewer than 3 non-empty lines, or whose
\* first non-empty line is no header, is Rejected (checkAndTranslate
\* returns False); so a header line followed by one body line is Rejected.
C3_Original ==
    Returned =>
        ((Len(NonEmptyLines(msg)) < 3 \/ ~FirstIsHeader(msg)) => result.ret = "False")

\* C3 (amended): every message with fewer than 2 non-empty lines, or whose
\* first non-empty line does not start with ">" or "<", is Rejected; a
\* message of one header line and one body line is not Rejected.
C3_Rejection ==
    Returned =>
        /\ (Len(NonEmptyLines(msg)) < 2 \/ ~FirstIsHeader(msg)) => result.ret = "False"
        /\ (Len(NonEmptyLines(msg)) = 2 /\ FirstIsHeader(msg)) => result.ret # "False"

C3_Witness ==
    /\ Returned /\ result.ret = "False"
    /\ Len(NonEmptyLines(msg)) = 1 /\ FirstIsHeader(msg)

\* the reply read back: the error block is the first line of a reply that
\* starts with the sentinel, each tag preceded by one sentinel
RECURSIVE Count(_, _)
Count(s, old) ==
    IF s = <<>> THEN 0
    ELSE IF startswith(s, old) THEN 1 + Count(SubSeq(s, Len(old) + 1, Len(s)), old)
    ELSE Count(Tail(s), old)

ReplyTags(reply) == IF startswith(reply, Sentinel) THEN Count(split(reply)[1], Sentinel) ELSE 0

ReplySuccessLines(reply) ==
    IF startswith(reply, Sentinel)
    THEN Len(SelectSeq(Tail(split(reply)), LAMBDA line : line # <<>>))
    ELSE Len(SelectSeq(split(reply), LAMBDA line : line # <<>>))

Replied == hpc \in {"send", "close", "done"}

\* C4: an accepted batch with N header lines of which exactly one record
\* fails validate_input gives a reply with exactly one error tag and N-1
\* transformed records (2(N-1) success lines); and the reply of an accepted
\* batch starts with "%%%" iff there is at least one error tag.
C4_ErrorSuccessSplit ==
    (Replied /\ result.ret = "tuple") =>
        /\ Len(InvalidRecords(msg)) = 1 =>
              /\ Len(result.error_headers) = 1
              /\ Len(result.out) = 2 * (Len(RecordsOf(msg)) - 1)
              /\ ReplyTags(output) = 1
              /\ ReplySuccessLines(output) = 2 * (Len(RecordsOf(msg)) - 1)
        /\ startswith(output, Sentinel) <=> Len(result.error_headers) >= 1

C4_Witness ==
    /\ Replied /\ result.ret = "tuple"
    /\ Len(RecordsOf(msg)) = 2 /\ Len(InvalidRecords(msg)) = 1
    /\ Len(result.out) = 2
    /\ startswith(output, Sentinel)

CharsOf(s) == {s[k] : k \in 1..Len(s)}
Dollars(s) == Len(SelectSeq(s, LAMBDA c : c = "$"))

\* C5 as stated: the example gives two transformed records and no error
\* tag; body 1 has 5 characters over {A,C,G,T,$} and one "$"; body 2,
\* w = BWTtoDNA("TACG$"), has 5 characters, ends in "$", and
\* DNAtoBWT(w) = "TACG$".
C5_Original ==
    (Returned /\ msg = Example) =>
        /\ result.ret = "tuple" /\ result.error_headers = <<>> /\ Len(result.out) = 4
        /\ Len(result.out[2]) = 5 /\ CharsOf(result.out[2]) \subseteq {"A", "C", "G", "T", "$"}
        /\ Dollars(result.out[2]) = 1
        /\ result.out[4] = BWTtoDNA(<<"T", "A", "C", "G", "$">>)
        /\ Len(result.out[4]) = 5 /\ result.out[4][5] = "$"
        /\ DNAtoBWT(result.out[4]) = <<"T", "A", "C", "G", "$">>

\* C5 (amended): the example gives two transformed records and no error
\* tag; body 1 has 5 characters over {A,C,G,T,$} and one "$"; body 2 is
\* the 5-character string "$T$T$", which ends in "$", and its forward
\* transform is "TT$$$", not "TACG$".
C5_Example ==
    (Returned /\ msg = Example) =>
        /\ result.ret = "tuple" /\ result.error_headers = <<>> /\ Len(result.out) = 4
        /\ Len(result.out[2]) = 5 /\ CharsOf(result.out[2]) \subseteq {"A", "C", "G", "T", "$"}
        /\ Dollars(result.out[2]) = 1
        /\ result.out[4] = <<"$", "T", "$", "T", "$">>
        /\ DNAtoBWT(result.out[4]) = <<"T", "T", "$", "$", "$">>

C5_Witness ==
    /\ Returned /\ msg = Example
    /\ result.out[1] = <<"<", " ", "s", "e", "q", "1">>
    /\ result.out[3] = <<">", " ", "s", "e", "q", "2">>

HandlerStopped == hpc \in {"done", "raised"}

\* C6: whatever the request, once the request and "/0" were delivered the
\* handler sends exactly one reply followed by "/0" and closes; it never
\* stops without having replied and closed.
C6_RepliesAndCloses ==
    HandlerStopped => (sent = output \o End /\ closed)

\* the transform call a record with a valid body leads to
CallOf(r) ==
    IF startswith(r.header, <<">">>)
    THEN [fn |-> "DNAtoBWT", arg |-> r.body \o <<"$">>]
    ELSE [fn |-> "BWTtoDNA", arg |-> r.body]

\* C7: in an accepted batch a record whose body fails validate_input is
\* never passed to DNAtoBWT or BWTtoDNA, gives exactly one error tag equal
\* to its header line and no success line, and every other record is
\* still processed.
C7_RecordRecovery ==
    Accepted =>
        LET bad == InvalidRecords(msg)
            good == ValidRecords(msg)
        IN  /\ \A k \in 1..Len(bad) : \A c \in 1..Len(result.calls) :
                  result.calls[c].arg \notin {bad[k].body, bad[k].body \o <<"$">>}
            /\ result.error_headers = [k \in 1..Len(bad) |-> bad[k].header]
            /\ result.calls = [k \in 1..Len(good) |-> CallOf(good[k])]
            /\ Len(result.out) = 2 * Len(good)

C7_Witness ==
    /\ Accepted
    /\ Len(RecordsOf(msg)) = 2
    /\ ~validate_input(RecordsOf(msg)[1].body) /\ RecordsOf(msg)[1].body # <<>>
    /\ validate_input(RecordsOf(msg)[2].body)
    /\ Len(result.calls) = 1 /\ Len(result.error_headers) = 1

\* C8: in an accepted batch every header line gives exactly one outcome, an
\* error tag or a transformed record, the last record included; records and
\* tags keep the input order of their headers; #tags + #records = #headers.
C8_Partition ==
    Accepted =>
        LET bad == InvalidRecords(msg)
            good == ValidRecords(msg)
        IN  /\ Len(result.out) % 2 = 0
            /\ Len(result.error_headers) + (Len(result.out) \div 2) = Len(RecordsOf(msg))
            /\ Len(result.error_headers) = Len(bad)
            /\ \A k \in 1..Len(result.error_headers) : result.error_headers[k] = bad[k].header
            /\ \A k \in 1..(Len(result.out) \div 2) :
                  SubSeq(result.out[2 * k - 1], 3, Len(result.out[2 * k - 1])) = Tail(good[k].header)

C8_Witness ==
    /\ Accepted
    /\ Len(RecordsOf(msg)) = 2 /\ Len(ValidRecords(msg)) = 2
    /\ RecordsOf(msg)[1].header # RecordsOf(msg)[2].header
    /\ Len(result.out) = 4 /\ result.error_headers = <<>>

\* C9: the header of every transformed record starts with "<" iff the input
\* header started with ">", with ">" iff it started with "<", and carries
\* the input header's label after the marker.
C9_MarkerFlip ==
    (hpc \in {"assemble", "raised", "send", "close", "done"} /\ result.ret # "False") =>
        \A k \in 1..(Len(result.out) \div 2) :
            LET h == ValidRecords(msg)[k].header
                o == result.out[2 * k - 1]
            IN  /\ o[1] = "<" <=> h[1] = ">"
                /\ o[1] = ">" <=> h[1] = "<"
                /\ o[1] \in {"<", ">"}
                /\ SubSeq(o, 3, Len(o)) = Tail(h)

C9_Witness ==
    /\ Accepted /\ Len(result.out) = 4
    /\ RecordsOf(msg)[1].header[1] = ">" /\ result.out[1][1] = "<"
    /\ RecordsOf(msg)[2].header[1] = "<" /\ result.out[3][1] = ">"

\* C10: the text handed to checkAndTranslate is the received buffer with
\* exactly one occurrence of "/0" removed; every other character, a further
\* "/0" included, is kept.
C10_StripsOneTerminator ==
    (hpc \notin {"idle", "recv", "decode"}) =>
        \E i \in 1..(Len(buf) - 1) :
            /\ SubSeq(buf, i, i + 1) = End
            /\ msg = SubSeq(buf, 1, i - 1) \o SubSeq(buf, i + 2, Len(buf))

ClientDecoded == cpc \in {"verbose", "close", "done", "raised"}
ClientShown == cpc \in {"close", "done", "raised"}

\* C11: for every reply payload without "/0" and every way payload + "/0"
\* is split over the client's reads, the string the client decodes is the
\* payload the server sent; a read that ends between "/" and "0" does not
\* end the receive loop.
C11_ReplyFraming ==
    ~Contains(output, End) =>
        /\ ClientDecoded => cmsg = output
        /\ (cpc = "recv" /\ sent # <<>>) => (startswith(sent, cbuf) /\ ~Contains(cbuf, End))

C11_Witness ==
    /\ ClientDecoded /\ ~Contains(output, End)
    /\ "/" \in CharsOf(output) /\ cmsg = output /\ rwire = <<>>

\* C12: the reply is the fixed error string iff checkAndTranslate returned
\* False, and otherwise is output_manager's payload; the client prints the
\* message and writes no file iff the batch was Rejected: an Accepted
\* reply begins with "%%%", "<" or ">", the error string with none of them.
BatchPrefix(m) == startswith(m, Sentinel) \/ startswith(m, <<"<">>) \/ startswith(m, <<">">>)

C12_Classification ==
    /\ Replied =>
          /\ output = ErrorReply <=> result.ret = "False"
          /\ result.ret # "False" => output = output_manager(result.error_headers, result.out)
          /\ BatchPrefix(output) <=> result.ret = "tuple"
    /\ ClientShown =>
          ((printed.kind = "message" /\ outfile = NoFile) <=> result.ret = "False")

C12_Witness ==
    /\ cpc = "done" /\ result.ret = "False"
    /\ printed.kind = "message" /\ printed.text = ErrorReply /\ outfile = NoFile

C19_ErrorBlockRoundTrip ==
    (/\ cpc \in {"close", "done"} /\ ~Contains(content, End)
     /\ result.ret = "tuple" /\ Len(result.error_headers) >= 1) =>
        /\ outfile = join(<<NL>>, result.out)
        /\ verbosity >= 1 => errorHeaders = result.error_headers

\* every tag preceded by one sentinel
RECURSIVE TagBlock(_)
TagBlock(tags) ==
    IF tags = <<>> THEN <<>> ELSE Sentinel \o Head(tags) \o TagBlock(Tail(tags))

\* C16: output_manager(errorTags, out) is, when errorTags is non-empty,
\* "%%%" followed by the error headers joined by "%%%", one newline, then
\* the success block, and otherwise exactly the success block; the success
\* block is the lines of out joined by single newlines, with no trailing
\* sentinel or newline.
C16_ResponseLayout ==
    (Replied /\ result.ret = "tuple") =>
        LET replyLines == split(output)
        IN  IF result.error_headers # <<>>
            THEN /\ replyLines[1] = TagBlock(result.error_headers)
                 /\ Tail(replyLines) = IF result.out = <<>> THEN <<<<>>>> ELSE result.out
            ELSE /\ replyLines = result.out
                 /\ output[Len(output)] # NL

C16_Witness ==
    /\ Replied /\ result.ret = "tuple"
    /\ Len(result.error_headers) = 2 /\ Len(result.out) = 2
    /\ Len(split(output)) = 3

\* all cyclic rotations of w are pairwise distinct
DistinctRotations(w) == Cardinality({RotateN(w, i) : i \in 1..Len(w)}) = Len(w)

\* C17: in every accepted batch each argument checkAndTranslate passes to
\* BWTtoDNA is non-empty and holds exactly one "$", and each argument it
\* passes to DNAtoBWT holds exactly one "$" (the appended one), so that its
\* rotations are pairwise distinct.
C17_TransformPreconditions ==
    Accepted =>
        \A c \in 1..Len(result.calls) :
            LET call == result.calls[c]
            IN  /\ call.arg # <<>>
                /\ Dollars(call.arg) = 1
                /\ call.fn = "DNAtoBWT" => DistinctRotations(call.arg)

\* C18: for every word s with exactly one `$`, at its end, and w = DNAtoBWT(s),
\* BWTtoDNA(w) makes exactly len(w) - 1 passes of its loop; after pass k every
\* row has length k + 1; when the loop has ended the rows are the sorted list
\* of all cyclic rotations of s that DNAtoBWT built, exactly one of them ends
\* in `$`, and that row, s itself, is returned.
C18_Reconstruction ==
    /\ tpc \in {"loop", "done"} =>
           /\ Len(sortWord) = Len(bwt)
           /\ \A r \in 1..Len(sortWord) : Len(sortWord[r]) = iters + 1
           /\ iters <= Len(bwt) - 1
    /\ tpc = "done" =>
           /\ iters = Len(bwt) - 1
           /\ sortWord = np_sort(Rotations(word \o <<"$">>))
           /\ Cardinality({r \in 1..Len(sortWord) : sortWord[r][Len(sortWord[r])] = "$"}) = 1
           /\ dna = word \o <<"$">>

C18_Witness ==
    /\ tpc = "done" /\ iters = MaxLen /\ word[1] = word[2]
    /\ sortWord[1][1] = "$" /\ dna = word \o <<"$">>

\* handler of connection i is suspended in recv: nothing has arrived that it
\* has not read, and it has seen no terminator
Suspended(i) ==
    /\ procs[i].hpc = "recv"
    /\ procs[i].wire = <<>>
    /\ ~Contains(procs[i].buf, End)

\* handler of connection i can take no further step
StoppedOn(i) == procs[i].hpc \in {"done", "raised"}

\* C13: in every interleaving, while any number of handlers are suspended
\* waiting for a terminator that has not arrived, the dispatcher can still
\* accept a new connection (a waiting connection is accepted and its process
\* started whatever the handlers are doing), and a later connection that has
\* sent a complete request is served to completion: once its handler has
\* stopped, the reply has been sent and the connection closed.
C13_NeverBlocked ==
    /\ (dpc = "accept" /\ listenq # <<>>) => ENABLED Accept
    /\ dpc = "start" => ENABLED Start
    /\ \A i \in 1..Len(procs) :
          (/\ \E j \in 1..(i - 1) : Suspended(j)
           /\ procs[i].csent
           /\ StoppedOn(i)) =>
              /\ procs[i].sent = Reply(procs[i].content) \o End
              /\ procs[i].closed

\* C14: in every interleaving of concurrently handled connections, the bytes
\* a handler has received are bytes its own client sent, and the reply sent on
\* a connection is the reply to the bytes received on that connection.
C14_Isolation ==
    \A i \in 1..Len(procs) :
        /\ startswith(procs[i].content \o End, procs[i].buf)
        /\ procs[i].output # <<>> => procs[i].output = Reply(Remove(procs[i].buf, End))
        /\ procs[i].sent # <<>> => procs[i].sent = Reply(Remove(procs[i].buf, End)) \o End

C14_Witness ==
    /\ Len(procs) >= 2
    /\ procs[1].content # procs[2].content
    /\ procs[1].sent # <<>> /\ procs[2].sent # <<>>
    /\ procs[1].sent # procs[2].sent
    /\ procs[2].closed /\ ~procs[1].closed

====
